---- MODULE Spec2Model ----
(***************************************************************************)
(* Model of the construction-tools scraper: mscraper.run_scrape and the    *)
(* app.py run handler, with the output CSV, the seen-set file and the      *)
(* offset file as persistent state.                                        *)
(*                                                                         *)
(* Text is a sequence of tokens.  A token is one character that the code   *)
(* treats specially (white space, line break, comma, dot, bracket, digit)  *)
(* or an indivisible word.  Every string operation of the code (strip,     *)
(* lower, split, join, substring, regular expressions, URL parsing) is     *)
(* modelled on token sequences.                                            *)
(***************************************************************************)
EXTENDS Integers, Sequences, FiniteSets, TLC

(***************************************************************************)
(* Program constants (mscraper.py, CONFIG).                                *)
(***************************************************************************)
PAGES_PER_RUN == 10
RESULTS_PER_PAGE == 10
BATCH_SIZE == 10
RATE_LIMIT_BACKOFF == 8
GptMaxRetries == 5

(***************************************************************************)
(* Bounds of the model.                                                    *)
(***************************************************************************)
MaxRuns == 2
\* the longest list of fetched results given to the dedupe on its own
MaxBag == 3

(***************************************************************************)
(* Generic sequence helpers.                                               *)
(***************************************************************************)
SetMin(S) == CHOOSE x \in S : \A y \in S : x <= y
SetMax(S) == CHOOSE x \in S : \A y \in S : x >= y

Take(s, n) == SubSeq(s, 1, IF n < Len(s) THEN n ELSE Len(s))

Range(s) == {s[i] : i \in 1..Len(s)}

IsPrefix(a, b) == Len(a) <= Len(b) /\ SubSeq(b, 1, Len(a)) = a

\* list.insert(k, x) of Python, k counted from 0 and clamped to the length
InsertAt(s, k, x) ==
  LET p == IF k > Len(s) THEN Len(s) ELSE k
  IN SubSeq(s, 1, p) \o <<x>> \o SubSeq(s, p + 1, Len(s))

(***************************************************************************)
(* str methods on token sequences.                                         *)
(***************************************************************************)
WS == {" ", "\n"}
DigitToks == {"0", "1", "2", "3", "4", "5", "6", "7", "8", "9"}

\* str.lower() per token: the words of the model that have upper-case letters
LowerTok(t) ==
  CASE t = "Acme" -> "acme"
    [] t = "ACME" -> "acme"
    [] t = "BIM" -> "bim"
    [] t = "AI" -> "ai"
    [] t = "Togal" -> "togal"
    [] t = "Resume" -> "resume"
    [] t = "Start" -> "start"
    [] t = "G2" -> "g2"
    [] t = "None" -> "none"
    [] t = "Ratings" -> "ratings"
    [] t = "Clients" -> "clients"
    [] OTHER -> t

Lower(s) == [i \in 1..Len(s) |-> LowerTok(s[i])]

\* str.strip()
Strip(s) ==
  LET keep == {i \in 1..Len(s) : s[i] \notin WS}
  IN IF keep = {} THEN <<>> ELSE SubSeq(s, SetMin(keep), SetMax(keep))

\* a in b, for strings
IsSubstr(a, b) ==
  \E i \in 0..(Len(b) - Len(a)) : SubSeq(b, i + 1, i + Len(a)) = a

StartsWith(s, p) == IsPrefix(p, s)

\* str.split(sep) for a one-token separator
RECURSIVE SplitFrom(_, _, _, _)
SplitFrom(s, sep, i, cur) ==
  IF i > Len(s) THEN <<cur>>
  ELSE IF s[i] = sep THEN <<cur>> \o SplitFrom(s, sep, i + 1, <<>>)
  ELSE SplitFrom(s, sep, i + 1, Append(cur, s[i]))

SplitOn(s, sep) == SplitFrom(s, sep, 1, <<>>)

\* sep.join(parts)
RECURSIVE Join(_, _)
Join(parts, sep) ==
  IF parts = <<>> THEN <<>>
  ELSE IF Len(parts) = 1 THEN parts[1]
  ELSE parts[1] \o sep \o Join(Tail(parts), sep)

\* re.match(r"^\d+$", s); "$" also matches before one trailing line break
IsDigits(s) ==
  LET body == IF Len(s) > 0 /\ s[Len(s)] = "\n" THEN SubSeq(s, 1, Len(s) - 1) ELSE s
  IN Len(body) > 0 /\ \A i \in 1..Len(body) : body[i] \in DigitToks

(***************************************************************************)
(* Persistent files.  A file is absent or holds a text.                    *)
(***************************************************************************)
Absent == [exists |-> FALSE, text |-> <<>>]
FileOf(t) == [exists |-> TRUE, text |-> t]

\* str(int(offset)) for offset >= 0
RECURSIVE IntToStr(_)
IntToStr(n) ==
  LET d == <<"0", "1", "2", "3", "4", "5", "6", "7", "8", "9">>
  IN IF n < 10 THEN <<d[n + 1]>> ELSE IntToStr(n \div 10) \o <<d[(n % 10) + 1]>>

DigitVal(t) ==
  CASE t = "0" -> 0 [] t = "1" -> 1 [] t = "2" -> 2 [] t = "3" -> 3 [] t = "4" -> 4
    [] t = "5" -> 5 [] t = "6" -> 6 [] t = "7" -> 7 [] t = "8" -> 8 [] OTHER -> 9

RECURSIVE DigitsToInt(_)
DigitsToInt(s) ==
  IF s = <<>> THEN 0 ELSE 10 * DigitsToInt(SubSeq(s, 1, Len(s) - 1)) + DigitVal(s[Len(s)])

\* load_last_offset: int(text.strip()), 0 when the file is absent or int() raises
load_last_offset(f) ==
  LET t == Strip(f.text)
  IN IF f.exists /\ t # <<>> /\ (\A i \in 1..Len(t) : t[i] \in DigitToks)
     THEN DigitsToInt(t) ELSE 0

\* save_last_offset
save_last_offset(offset) == FileOf(IntToStr(offset))

\* code-point order of the tokens that occur in seen names
TokRank(t) ==
  CASE t = "\n" -> 1 [] t = " " -> 2 [] t = "ACME" -> 3 [] t = "Acme" -> 4
    [] t = "BIM" -> 5 [] t = "Togal" -> 6 [] t = "acme" -> 7 [] t = "bim" -> 8
    [] t = "togal" -> 9 [] OTHER -> 10

RECURSIVE LexLess(_, _)
LexLess(a, b) ==
  IF a = <<>> THEN b # <<>>
  ELSE IF b = <<>> THEN FALSE
  ELSE IF TokRank(a[1]) # TokRank(b[1]) THEN TokRank(a[1]) < TokRank(b[1])
  ELSE LexLess(Tail(a), Tail(b))

\* sorted(seen_set)
RECURSIVE Sorted(_)
Sorted(S) ==
  IF S = {} THEN <<>>
  ELSE LET m == CHOOSE x \in S : \A y \in S : ~LexLess(y, x)
       IN <<m>> \o Sorted(S \ {m})

RECURSIVE ConcatLines(_)
ConcatLines(names) ==
  IF names = <<>> THEN <<>> ELSE names[1] \o <<"\n">> \o ConcatLines(Tail(names))

\* save_seen: one line per element, sorted
save_seen(seen_set) == FileOf(ConcatLines(Sorted(seen_set)))

\* load_seen: every non-empty stripped, lower-cased line of the file
load_seen(f) ==
  IF ~f.exists THEN {}
  ELSE LET lines == SplitOn(f.text, "\n")
       IN {Lower(Strip(lines[i])) : i \in 1..Len(lines)} \ {<<>>}

(***************************************************************************)
(* URLs and domains.  A URL is an optional scheme token, host labels       *)
(* separated by ".", and an optional path that starts at a path token.     *)
(***************************************************************************)
SchemeToks == {"https://", "http://"}
PathToks == {"/", "/search?q="}
\* the public suffixes that occur in the model and in REPUTABLE_SOURCES
Suffixes == {"com", "net", "io", "co", "be", "to", "site", "so", "ai"}

HasScheme(u) == u # <<>> /\ u[1] \in SchemeToks

\* the network location: after the scheme, up to the path
BeforePath(rest, cut) ==
  Strip(IF cut = {} THEN rest ELSE SubSeq(rest, 1, SetMin(cut) - 1))
PathStarts(rest) == {i \in 1..Len(rest) : rest[i] \in PathToks}
AfterScheme(u) == IF HasScheme(u) THEN Tail(u) ELSE u
HostOf(u) == BeforePath(AfterScheme(u), PathStarts(AfterScheme(u)))

\* urlparse(url).netloc.lower().replace("www.", "")
DropWww(h) == IF Len(h) >= 2 /\ h[1] = "www" /\ h[2] = "." THEN SubSeq(h, 3, Len(h)) ELSE h
NetlocNoWww(u) == DropWww(IF HasScheme(u) THEN Lower(HostOf(u)) ELSE <<>>)

\* tldextract's domain and suffix of the host labels, "" when it finds none
Registered(labels, n) ==
  IF labels[n] = <<>> THEN <<>>
  ELSE IF Len(labels[n]) = 1 /\ LowerTok(labels[n][1]) \in Suffixes
       THEN IF n >= 2 /\ labels[n - 1] # <<>>
            THEN Lower(labels[n - 1] \o <<".">> \o labels[n])
            ELSE <<>>
       ELSE Lower(labels[n])

RegisteredOf(labels) == Registered(labels, Len(labels))
OrElse(a, b) == IF a # <<>> THEN a ELSE b

\* domain_from_url: tldextract's registered domain, lower-cased; the
\* network location when tldextract finds no domain
domain_from_url(u) ==
  IF u = <<>> THEN <<>>
  ELSE OrElse(RegisteredOf(SplitOn(HostOf(u), ".")), NetlocNoWww(u))

\* quote_plus of urlencode: a space becomes "+", a line break "%0A"
QuoteTok(t) == CASE t = " " -> "+" [] t = "\n" -> "%0A" [] OTHER -> t
QuotePlus(s) == [i \in 1..Len(s) |-> QuoteTok(s[i])]

make_google_query_url(q) ==
  <<"https://", "www", ".", "google", ".", "com", "/search?q=">> \o QuotePlus(q)

\* the query the fallback source is built from
ReviewQuery(tn) ==
  tn \o <<" ", "reviews", " ", "producthunt", " ", "g2", " ", "capterra", " ",
          "futurepedia", " ", "alternativeto">>

FallbackSource(tn) == make_google_query_url(ReviewQuery(tn))

REPUTABLE_DOMAIN_SET ==
  { <<"producthunt", ".", "com">>, <<"g2", ".", "com">>, <<"capterra", ".", "com">>,
    <<"getapp", ".", "com">>, <<"alternativeto", ".", "net">>,
    <<"futurepedia", ".", "io">>, <<"theresanaiforthat", ".", "com">>,
    <<"crunchbase", ".", "com">>, <<"angel", ".", "co">>, <<"wellfound", ".", "com">>,
    <<"github", ".", "com">>, <<"gitlab", ".", "com">>, <<"stackshare", ".", "io">>,
    <<"betalist", ".", "com">>, <<"indiehackers", ".", "com">>,
    <<"reddit", ".", "com">>, <<"linkedin", ".", "com">>,
    <<"news", ".", "ycombinator", ".", "com">>, <<"ycombinator", ".", "com">>,
    <<"medium", ".", "com">>, <<"dev", ".", "to">>, <<"techcrunch", ".", "com">>,
    <<"theverge", ".", "com">>, <<"zdnet", ".", "com">>, <<"wired", ".", "com">>,
    <<"arstechnica", ".", "com">>, <<"youtube", ".", "com">>, <<"youtu", ".", "be">>,
    <<"twitter", ".", "com">>, <<"x", ".", "com">>, <<"readthedocs", ".", "io">>,
    <<"docs", ".", "google", ".", "com">>, <<"notion", ".", "site">>,
    <<"notion", ".", "so">>, <<"substack", ".", "com">> }

EndsWith(s, p) == Len(p) <= Len(s) /\ SubSeq(s, Len(s) - Len(p) + 1, Len(s)) = p

looks_reputable(url_or_domain) ==
  LET d == domain_from_url(url_or_domain)
  IN d # <<>> /\ \E rd \in REPUTABLE_DOMAIN_SET : d = rd \/ EndsWith(d, <<".">> \o rd)

(***************************************************************************)
(* JSON values of a field: a string, a list of strings, a dict, another    *)
(* scalar (number, true, false, null), or no such key.                     *)
(***************************************************************************)
JMissing == [t |-> "missing", s |-> <<>>, items |-> <<>>]
JStr(s) == [t |-> "str", s |-> s, items |-> <<>>]
JList(items) == [t |-> "list", s |-> <<>>, items |-> items]
\* s is json.dumps(val) for a dict and str(val) for another scalar
JDict(s) == [t |-> "dict", s |-> s, items |-> <<>>]
JOther(s) == [t |-> "other", s |-> s, items |-> <<>>]
JNull == JOther(<<"None">>)

\* safe_get_str(obj, key) for a dict obj, v the value under key
safe_get_str(v) ==
  CASE v.t = "missing" -> <<>>
    [] v.t = "str" -> Strip(v.s)
    [] v.t = "list" -> Join(v.items, <<" ">>)
    [] v.t = "dict" -> v.s
    [] OTHER -> Strip(v.s)

(***************************************************************************)
(* Model responses.  None is the absent response; a response text holds    *)
(* prose tokens, the JSON punctuation tokens "[", "]", "{", "}", ",",      *)
(* scalar tokens, and member tokens: a member token stands for the whole   *)
(* member list of one JSON object (see Members).                           *)
(***************************************************************************)
None == [some |-> FALSE, text |-> <<>>]
Some(t) == [some |-> TRUE, text |-> t]

MemberToks == {"m_acme", "m_ACME", "m_nl", "m_google", "m_blank", "m_nodesc",
               "g_good", "g_same", "g_long", "g_tail"}
ScalarToks == {"1", "\"x\""}
\* what an array element that is not a dict is recorded as
NonDict == "nondict"
\* the member token of the empty object {}
EmptyMembers == "m_empty"

SkipWs(t, i) ==
  LET rest == {j \in i..Len(t) : t[j] \notin WS}
  IN IF rest = {} THEN Len(t) + 1 ELSE SetMin(rest)

ParseFail == [ok |-> FALSE, next |-> 0, kind |-> "none", elems |-> <<>>]

\* json.loads on tokens: a value starting at i; elems are the elements of an
\* array (member token of a dict element, NonDict otherwise) or the one
\* member token of an object
RECURSIVE ParseValue(_, _), ParseElems(_, _, _)

\* after an element of an array: j is the next token that is not white space
NextElem(t, j, acc) ==
  IF j > Len(t) THEN ParseFail
  ELSE IF t[j] = "]" THEN [ok |-> TRUE, next |-> j + 1, kind |-> "list", elems |-> acc]
  ELSE IF t[j] = "," THEN ParseElems(t, SkipWs(t, j + 1), acc)
  ELSE ParseFail

\* v is the element just parsed
AfterElem(t, v, acc) ==
  IF ~v.ok THEN ParseFail
  ELSE NextElem(t, SkipWs(t, v.next),
                Append(acc, IF v.kind = "dict" THEN v.elems[1] ELSE NonDict))

ParseElems(t, i, acc) == AfterElem(t, ParseValue(t, i), acc)

\* after "[": j is the next token that is not white space
ParseArray(t, j) ==
  IF j <= Len(t) /\ t[j] = "]"
  THEN [ok |-> TRUE, next |-> j + 1, kind |-> "list", elems |-> <<>>]
  ELSE ParseElems(t, j, <<>>)

\* after the member token at j: k is the next token that is not white space
CloseObject(t, j, k) ==
  IF k <= Len(t) /\ t[k] = "}"
  THEN [ok |-> TRUE, next |-> k + 1, kind |-> "dict", elems |-> <<t[j]>>]
  ELSE ParseFail

\* after "{": j is the next token that is not white space
ParseObject(t, j) ==
  IF j > Len(t) THEN ParseFail
  ELSE IF t[j] = "}"
  THEN [ok |-> TRUE, next |-> j + 1, kind |-> "dict", elems |-> <<EmptyMembers>>]
  ELSE IF t[j] \in MemberToks THEN CloseObject(t, j, SkipWs(t, j + 1))
  ELSE ParseFail

ParseValue(t, i) ==
  IF i > Len(t) THEN ParseFail
  ELSE IF t[i] = "[" THEN ParseArray(t, SkipWs(t, i + 1))
  ELSE IF t[i] = "{" THEN ParseObject(t, SkipWs(t, i + 1))
  ELSE IF t[i] \in ScalarToks
       THEN [ok |-> TRUE, next |-> i + 1, kind |-> "scalar", elems |-> <<>>]
       ELSE ParseFail

\* mutant of WholeValue: text after the value is accepted
WholeValueLoose(t, v) == v

\* json.loads(text): one value and nothing but white space around it
WholeValue(t, v) == IF v.ok /\ SkipWs(t, v.next) > Len(t) THEN v ELSE ParseFail
json_loads(t) == WholeValue(t, ParseValue(t, SkipWs(t, 1)))

\* re.search(r"(\[.*\]|\{.*\})", text, re.DOTALL): the leftmost opening
\* bracket that has its closing bracket somewhere after it, up to the LAST
\* such closing bracket (".*" is greedy); <<>> when there is no match
Closer(o) == IF o = "[" THEN "]" ELSE "}"
Closers(t, i) == {k \in (i + 1)..Len(t) : t[k] = Closer(t[i])}
Openers(t) == {i \in 1..Len(t) : t[i] \in {"[", "{"} /\ Closers(t, i) # {}}
SpanFrom(t, i) == SubSeq(t, i, SetMax(Closers(t, i)))
JsonSpan(t) == IF Openers(t) = {} THEN <<>> ELSE SpanFrom(t, SetMin(Openers(t)))

\* parse_gpt_json lines 432-439: the parsed span as a list
AsList(m, v) ==
  IF m = <<>> \/ ~v.ok THEN <<>>
  ELSE IF v.kind = "dict" THEN v.elems
  ELSE IF v.kind = "list" THEN v.elems
  ELSE <<>>

LoadSpan(m) == AsList(m, json_loads(m))

\* parse_gpt_json: the list of elements, [data] for a dict, [] otherwise
parse_gpt_json(raw) ==
  IF ~raw.some \/ raw.text = <<>> THEN <<>> ELSE LoadSpan(JsonSpan(raw.text))

(***************************************************************************)
(* extract_review_count                                                    *)
(***************************************************************************)
ReviewWords == {"reviews", "review", "ratings", "rating", "votes", "vote"}
UserWords == {"users", "customers", "clients"}

AllDigits(t, a, b) == a <= b /\ b <= Len(t) /\ \A k \in a..b : t[k] \in DigitToks

\* ends of (?:[,\s]\d{3})* continued from a number that ends at e
RECURSIVE GroupEnds(_, _)
GroupEnds(t, e) ==
  IF e + 4 <= Len(t) /\ t[e + 1] \in ({","} \cup WS) /\ AllDigits(t, e + 2, e + 4)
  THEN {e} \cup GroupEnds(t, e + 4)
  ELSE {e}

\* \s+ and then one of the keywords, right after position e
KeywordFollows(t, e, words) ==
  \E k \in (e + 1)..(Len(t) - 1) :
     /\ \A x \in (e + 1)..k : t[x] \in WS
     /\ LowerTok(t[k + 1]) \in words

\* where group 1 may end for a match that starts at i with n leading digits
EndsFor(t, i, n, words) ==
  IF AllDigits(t, i, i + n - 1)
  THEN {e \in GroupEnds(t, i + n - 1) : KeywordFollows(t, e, words)}
  ELSE {}

\* the regex prefers the most groups
BestEnd(ends) == IF ends = {} THEN 0 ELSE SetMax(ends)
FirstNonZero(a, b, c) == IF a # 0 THEN a ELSE IF b # 0 THEN b ELSE c

\* the end of group 1 for a match starting at i, 0 when none: the regex
\* prefers the longest \d{1,3}
NumberEnd(t, i, words) ==
  FirstNonZero(BestEnd(EndsFor(t, i, 3, words)), BestEnd(EndsFor(t, i, 2, words)),
               BestEnd(EndsFor(t, i, 1, words)))

MatchStarts(t, words) == {i \in 1..Len(t) : NumberEnd(t, i, words) # 0}
MatchAt(t, i, words) == SubSeq(t, i, NumberEnd(t, i, words))
FirstMatch(t, starts, words) ==
  IF starts = {} THEN <<>> ELSE MatchAt(t, SetMin(starts), words)

\* re.search of the number pattern followed by a keyword: group 1 or <<>>
SearchCount(t, words) == FirstMatch(t, MatchStarts(t, words), words)

\* mutant of DropSeparators: group 1 returned as matched
DropSeparatorsKeep(s) == s

\* re.sub(r"[,\s]", "", s)
DropSeparators(s) == SelectSeq(s, LAMBDA c : c \notin ({","} \cup WS))

\* lines 445-450: m is the reviews match, m2 the users match
PickCount(m, m2) ==
  IF m # <<>> THEN DropSeparators(m)
  ELSE IF m2 # <<>> THEN DropSeparators(m2)
  ELSE <<"0">>

extract_review_count(text) ==
  IF text = <<>> THEN <<"0">>
  ELSE PickCount(SearchCount(text, ReviewWords), SearchCount(text, UserWords))

(***************************************************************************)
(* The objects the model responses of this model contain.                  *)
(***************************************************************************)
Obj(tn, desc, web, src, tags, rev, ld) ==
  [tool_name |-> tn, description |-> desc, website |-> web, source |-> src,
   tags |-> tags, reviews |-> rev, launch_date |-> ld]

AcmeCom == <<"acme", ".", "com">>
DescUsers == <<"takeoff", " ", "by", " ", "1", ",", "2", "0", "4", " ", "users">>

Extracted(tn, desc, web) == Obj(tn, desc, web, JMissing, JMissing, JMissing, JMissing)
Enrichment(src, tags, rev, ld) == Obj(JMissing, JMissing, JMissing, src, tags, rev, ld)

Members(m) ==
  CASE m = "m_acme" -> Extracted(JStr(<<"Acme">>), JStr(DescUsers), JStr(AcmeCom))
    [] m = "m_ACME" ->
         Extracted(JStr(<<" ", "ACME">>), JStr(<<"estimating">>),
                   JStr(<<"https://", "www", ".", "Acme", ".", "com", "/", "x">>))
    [] m = "m_nl" ->
         Extracted(JStr(<<"Acme", "\n", "BIM">>), JStr(<<"bim">>), JStr(<<"togal", ".", "ai">>))
    [] m = "m_google" ->
         Extracted(JStr(<<"Togal">>), JStr(<<"takeoff">>), JStr(<<"google", ".", "com">>))
    [] m = "m_blank" ->
         Extracted(JList(<< <<" ">> >>), JStr(<<"takeoff">>), JStr(AcmeCom))
    [] m = "m_nodesc" ->
         Extracted(JStr(<<"Togal">>), JStr(<<" ">>), JStr(<<"togal", ".", "ai">>))
    [] m = "g_good" ->
         Enrichment(JStr(<<"https://", "www", ".", "g2", ".", "com", "/", "acme">>),
                    JStr(<<"AI", ",", " ", "construction", ",", " ", "BIM">>),
                    JOther(<<"1", "2", "8">>), JStr(<<"2021">>))
    [] m = "g_same" ->
         Enrichment(JStr(<<"https://", "acme", ".", "com", "/", "about">>),
                    JMissing, JStr(<<"4", ".", "5">>), JNull)
    [] m = "g_long" ->
         Enrichment(JStr(<<"G2">>),
                    JStr(<<"BIM", ",", "takeoff", ",", ",", "estimating", ",", "bim",
                           ",", "site", ",", "AI">>),
                    JList(<< <<"7", "\n">> >>), JMissing)
    [] m = "g_tail" ->
         Enrichment(JStr(<<"https://", "www", ".", "g2", ".", "com", "/", "acme">>),
                    JStr(<<"BIM", ",", "takeoff", ",", "estimating", ",", "site", ",",
                           " ", "AI", ",", " ", "construction">>),
                    JStr(<<"1", "2">>), JStr(<<"2021">>))
    [] OTHER -> Obj(JMissing, JMissing, JMissing, JMissing, JMissing, JMissing, JMissing)

(***************************************************************************)
(* Normalisation, enrichment and the write loop of run_scrape.             *)
(***************************************************************************)
\* normalize_extracted line 458: the website is reduced to its domain
DomainOnly(web) == IF "." \in Range(web) THEN domain_from_url(web) ELSE web

\* normalize_extracted
normalize_extracted(obj) ==
  [tool_name |-> safe_get_str(obj.tool_name),
   description |-> safe_get_str(obj.description),
   website |-> DomainOnly(safe_get_str(obj.website))]

\* run_scrape lines 557-561: a normalised item that is kept
Usable(item, seen_names) ==
  /\ item.tool_name # <<>> /\ item.description # <<>> /\ item.website # <<>>
  /\ Lower(item.tool_name) \notin seen_names

KeepUsable(item, seen_names) == IF Usable(item, seen_names) THEN <<item>> ELSE <<>>

\* run_scrape lines 551-562 for one element p of the parsed response
ExtractOne(p, seen_names) ==
  IF p = NonDict THEN <<>> ELSE KeepUsable(normalize_extracted(Members(p)), seen_names)

\* run_scrape lines 549-562: the usable items of a parsed response
RECURSIVE ExtractItems(_, _)
ExtractItems(parsed, seen_names) ==
  IF parsed = <<>> THEN <<>>
  ELSE ExtractOne(parsed[1], seen_names) \o ExtractItems(Tail(parsed), seen_names)

\* suggest_source_from_batch lines 494-499: whether a batch link is picked
PicksLink(name_l, web_d, url, dom, t, sn) ==
  /\ url # <<>> /\ dom # <<>>
  /\ dom # web_d
  /\ looks_reputable(dom)
  /\ name_l # <<>> /\ (IsSubstr(name_l, t) \/ IsSubstr(name_l, sn))

PicksItem(name_l, web_d, b, url) ==
  PicksLink(name_l, web_d, url, domain_from_url(url), Lower(Strip(b.title)),
            Lower(Strip(b.snippet)))

RECURSIVE FirstPick(_, _, _)
FirstPick(name_l, web_d, batch) ==
  IF batch = <<>> THEN <<>>
  ELSE IF PicksItem(name_l, web_d, batch[1], Strip(batch[1].link))
  THEN Strip(batch[1].link)
  ELSE FirstPick(name_l, web_d, Tail(batch))

\* suggest_source_from_batch: the first reputable link of the batch that
\* mentions the tool and is not on the website's domain, <<>> for None
suggest_source_from_batch(tool_name, website, batch) ==
  FirstPick(Lower(tool_name), domain_from_url(website), batch)

\* run_scrape lines 574-582
InitialEnriched(it, batch) ==
  [tool_name |-> it.tool_name, description |-> it.description, website |-> it.website,
   source |-> suggest_source_from_batch(it.tool_name, it.website, batch),
   tags |-> <<"AI", ",", " ", "construction">>,
   reviews |-> <<"0">>,
   launch_date |-> <<>>]

\* run_scrape line 588
NeedsGrok(en) ==
  \/ en.source = <<>>
  \/ en.reviews = <<"0">>
  \/ en.launch_date = <<>>
  \/ ~IsSubstr(<<"AI">>, en.tags)
  \/ ~IsSubstr(<<"construction">>, en.tags)

\* [t.strip() for t in tags.split(",") if t.strip()]
StripAll(parts) == [i \in 1..Len(parts) |-> Strip(parts[i])]
TagList(tags) == SelectSeq(StripAll(SplitOn(tags, ",")), LAMBDA x : x # <<>>)

LowerAll(list) == [i \in 1..Len(list) |-> Lower(list[i])]

\* insert "AI" at 0 and "construction" at 1 unless present in low, the
\* lower-cased tags as they were before the inserts
AddAI(tag_list, low) ==
  IF <<"ai">> \notin low THEN InsertAt(tag_list, 0, <<"AI">>) ELSE tag_list
AddConstruction(tag_list, low) ==
  IF <<"construction">> \notin low THEN InsertAt(tag_list, 1, <<"construction">>)
  ELSE tag_list
AddBaseTags(tag_list, low) == AddConstruction(AddAI(tag_list, low), low)
WithBaseTags(tag_list) == AddBaseTags(tag_list, Range(LowerAll(tag_list)))

JoinTags(tag_list) == Join(tag_list, <<",", " ">>)

\* run_scrape lines 605-611
SourceFrom(en, src) ==
  IF src = <<>> THEN en.source
  ELSE IF domain_from_url(src) = domain_from_url(en.website)
  THEN FallbackSource(en.tool_name)
  ELSE src

\* run_scrape lines 613-622
TagsFrom(en, tags) ==
  IF tags = <<>> THEN en.tags ELSE JoinTags(Take(WithBaseTags(TagList(tags)), 5))

\* run_scrape lines 624-628
ReviewsFrom(en, reviews) ==
  IF IsDigits(reviews) THEN reviews ELSE extract_review_count(en.description)

\* run_scrape lines 603-631: the fields of the enrichment object da applied
ApplyEnrichment(en, da) ==
  [en EXCEPT !.source = SourceFrom(en, safe_get_str(da.source)),
             !.tags = TagsFrom(en, safe_get_str(da.tags)),
             !.reviews = ReviewsFrom(en, safe_get_str(da.reviews)),
             !.launch_date = safe_get_str(da.launch_date)]

\* run_scrape line 602
EnrichWith(en, data) ==
  IF data = <<>> \/ data[1] = NonDict THEN en ELSE ApplyEnrichment(en, Members(data[1]))

\* run_scrape lines 600-631: one enrichment response applied to an item
Enrich(en, out) == EnrichWith(en, parse_gpt_json(out))

\* run_scrape lines 635-636
SafeSource(en) ==
  IF en.source = <<>> \/ domain_from_url(en.source) = domain_from_url(en.website)
  THEN FallbackSource(en.tool_name) ELSE en.source

\* run_scrape lines 639-648
TagsChanged(low) == <<"ai">> \notin low \/ <<"construction">> \notin low
FixTags(en, tag_list, low) ==
  IF TagsChanged(low) THEN JoinTags(Take(AddBaseTags(tag_list, low), 5)) ELSE en.tags
SafeTags(en, tag_list) == FixTags(en, tag_list, Range(LowerAll(tag_list)))

\* run_scrape lines 651-652
SafeReviews(en) ==
  IF IsDigits(en.reviews) THEN en.reviews ELSE extract_review_count(en.description)

\* run_scrape lines 634-652: the final safety pass over one item
FinalSafety(en) ==
  [en EXCEPT !.source = SafeSource(en),
             !.tags = SafeTags(en, TagList(en.tags)),
             !.reviews = SafeReviews(en)]

\* the 7 columns of the output file
Header ==
  << <<"tool_name">>, <<"description">>, <<"website">>, <<"source">>, <<"tags">>,
     <<"reviews">>, <<"launch_date">> >>

\* mutant of HasRequired: the check of line 667 without the tool name
HasRequiredNoName(tn, desc, web, src) == desc # <<>> /\ web # <<>> /\ src # <<>>

\* run_scrape line 667: the required fields of a record about to be written
HasRequired(tn, desc, web, src) == tn # <<>> /\ desc # <<>> /\ web # <<>> /\ src # <<>>

\* run_scrape lines 672-674
DistinctSource(tn, web, src) ==
  IF domain_from_url(src) = domain_from_url(web) THEN FallbackSource(tn) ELSE src

\* run_scrape line 677: the row written for a record
RowOf(tn, desc, web, src, tags, rev, ld) == <<tn, desc, web, src, tags, rev, ld>>

\* run_scrape lines 667-680: one record, its fields coerced, against the
\* state st = [rows, seen, saved] of the write loop
WriteRow(tn, desc, web, src, tags, rev, ld, st) ==
  IF ~HasRequired(tn, desc, web, src) THEN st
  ELSE IF Lower(tn) \in st.seen THEN st
  ELSE [rows |-> Append(st.rows,
                    RowOf(tn, desc, web, DistinctSource(tn, web, src), tags, rev, ld)),
        seen |-> st.seen \cup {Lower(tn)},
        saved |-> st.saved + 1]

\* run_scrape lines 659-665: safe_get_str of each field of an enriched item
WriteObj(obj, st) ==
  WriteRow(Strip(obj.tool_name), Strip(obj.description), Strip(obj.website),
           Strip(obj.source), Strip(obj.tags), Strip(obj.reviews),
           Strip(obj.launch_date), st)

\* run_scrape lines 658-680: the write loop over the enriched items
RECURSIVE WriteRows(_, _)
WriteRows(enriched, st) ==
  IF enriched = <<>> THEN st ELSE WriteRows(Tail(enriched), WriteObj(enriched[1], st))

(***************************************************************************)
(* Search results.                                                         *)
(***************************************************************************)
\* the keywords of construction_related_score
ScoreKeywords ==
  { <<"construction">>, <<"builder">>, <<"contractor">>, <<"jobsite">>, <<"bim">>,
    <<"aec">>, <<"architecture">>, <<"architectural">>, <<"engineering">>,
    <<"civil", " ", "engineering">>, <<"site">>, <<"project", " ", "delivery">>,
    <<"estimating">>, <<"takeoff">>, <<"quantity", " ", "takeoff">>, <<"scheduling">>,
    <<"rfis">>, <<"submittals">>, <<"field">>, <<"safety">>, <<"punchlist">>,
    <<"as-built">>, <<"prefab">>, <<"revit">>, <<"navisworks">> }

construction_related_score(text) ==
  IF text = <<>> THEN 0
  ELSE Cardinality({k \in ScoreKeywords : IsSubstr(k, Lower(text))})

\* the result items the providers of this model return
Item(title, snippet, link) == [title |-> title, snippet |-> snippet, link |-> link]

Filler(k) ==
  Item(<<"page", " ">> \o IntToStr(k), <<>>,
       <<"https://", "site", ".", "com", "/">> \o IntToStr(k))

Hit(k) ==
  CASE k = 1 -> Item(<<"Acme", " ", "emdash", " ", "takeoff">>,
                     <<"construction", " ", "estimating">>,
                     <<"https://", "www", ".", "g2", ".", "com", "/", "acme">>)
    [] k = 2 -> Item(<<"Acme">>, <<>>, <<"https://", "acme", ".", "com">>)
    [] k = 3 -> Item(<<"Togal", " ", "|", " ", "AI">>, <<"bim">>,
                     <<"https://", "togal", ".", "ai">>)
    [] OTHER -> Filler(k)

PageOne == [k \in 1..6 |-> Hit(k)]
\* the second page repeats the first hit of the first page
PageTwo == <<Hit(1)>> \o [k \in 1..5 |-> Hit(k + 6)]

\* a provider's answers to the page requests of one run: page -> [ok, hits]
Answer(ok, hits) == [ok |-> ok, hits |-> hits]
Script(a0, a1) ==
  [page \in 0..(PAGES_PER_RUN - 1) |->
     IF page = 0 THEN a0 ELSE IF page = 1 THEN a1 ELSE Answer(TRUE, <<>>)]
NoHits == Script(Answer(TRUE, <<>>), Answer(TRUE, <<>>))
\* a failing first page followed by a page of hits
OnePage == Script(Answer(FALSE, <<>>), Answer(TRUE, PageOne))
\* two pages of hits
TwoPages == Script(Answer(TRUE, PageOne), Answer(TRUE, PageTwo))
\* what each provider may answer in this model
Scripts(engine) == IF engine = "serpapi" THEN {OnePage} ELSE {OnePage, TwoPages}

\* the common Candidate shape of a result item
Candidate(h, engine, displayed) ==
  [title |-> Strip(h.title), snippet |-> Strip(h.snippet), link |-> Strip(h.link),
   displayed_link |-> displayed, engine |-> engine]

Candidates(hits, engine) ==
  [k \in 1..Len(hits) |->
     Candidate(hits[k], engine,
               IF engine = "serper" THEN domain_from_url(hits[k].link)
               ELSE HostOf(hits[k].link))]

\* a page request as the provider sees it
Request(engine, param, value) == [engine |-> engine, param |-> param, value |-> value]

\* the request of page number `page` (0-based loop index) of each engine
SerpapiRequest(start_offset, page) ==
  Request("serpapi", "start", start_offset + page * RESULTS_PER_PAGE)
GoogleCseRequest(start_offset, page) ==
  Request("google_cse", "start", start_offset + page * RESULTS_PER_PAGE + 1)
SerperRequest(start_offset, page) == Request("serper", "page", page + 1)

PageRequest(engine, start_offset, page) ==
  CASE engine = "serpapi" -> SerpapiRequest(start_offset, page)
    [] engine = "google_cse" -> GoogleCseRequest(start_offset, page)
    [] OTHER -> SerperRequest(start_offset, page)

\* the page loop of fetch_serpapi / fetch_google_cse / fetch_serper from
\* `page` on: [results, requests]
RECURSIVE FetchPages(_, _, _, _, _)
FetchPages(engine, start_offset, script, page, acc) ==
  IF page >= PAGES_PER_RUN THEN acc
  ELSE LET a == script[page]
           reqs == Append(acc.requests, PageRequest(engine, start_offset, page))
       IN FetchPages(engine, start_offset, script, page + 1,
             [results |-> IF a.ok THEN acc.results \o Candidates(a.hits, engine)
                          ELSE acc.results,
              requests |-> reqs])

\* mutant of Fetch: the pages requested without looking at the credential
FetchAnyway(engine, has_key, start_offset, script) ==
  FetchPages(engine, start_offset, script, 0, [results |-> <<>>, requests |-> <<>>])

\* fetch_*: nothing without the credential
Fetch(engine, has_key, start_offset, script) ==
  IF ~has_key THEN [results |-> <<>>, requests |-> <<>>]
  ELSE FetchPages(engine, start_offset, script, 0, [results |-> <<>>, requests |-> <<>>])

\* r.get(f) or "": a field that is missing counts as the empty string
GetOrEmpty(r, f) == IF f \in DOMAIN r THEN r[f] ELSE <<>>

\* aggregate_results lines 282-291: first occurrence of each link||title
DedupKey(r) == GetOrEmpty(r, "link") \o <<"||">> \o GetOrEmpty(r, "title")

\* mutant of Dedup: every fetched result kept
DedupNone(bag, seen) == bag

RECURSIVE Dedup(_, _)
Dedup(bag, seen) ==
  IF bag = <<>> THEN <<>>
  ELSE IF DedupKey(bag[1]) \in seen THEN Dedup(Tail(bag), seen)
  ELSE <<bag[1]>> \o Dedup(Tail(bag), seen \cup {DedupKey(bag[1])})

\* run_scrape lines 523-529: stable sort by descending score
ScoreOf(r) == construction_related_score(r.title \o <<" ">> \o r.snippet)
RECURSIVE RankFrom(_, _)
RankFrom(list, score) ==
  IF score < 0 THEN <<>>
  ELSE SelectSeq(list, LAMBDA r : ScoreOf(r) = score) \o RankFrom(list, score - 1)
Ranked(list) == RankFrom(list, Cardinality(ScoreKeywords))

\* candidates[i:i+BATCH_SIZE], i counted from 0
BatchAt(cands, i) ==
  SubSeq(cands, i + 1, IF i + BATCH_SIZE < Len(cands) THEN i + BATCH_SIZE ELSE Len(cands))

(***************************************************************************)
(* The inputs of a run.                                                    *)
(***************************************************************************)
\* credentials: which of the environment keys are set
Config(serp, google, cse_id, serper, openai, grok) ==
  [SERP_API_KEY |-> serp, GOOGLE_API_KEY |-> google, GOOGLE_CSE_ID |-> cse_id,
   SERPER_API_KEY |-> serper, OPENAI_API_KEY |-> openai, GROK_API_KEY |-> grok]
NoSearchKeys == Config(FALSE, FALSE, FALSE, FALSE, TRUE, TRUE)
Configs ==
  { NoSearchKeys,
    Config(TRUE, FALSE, FALSE, FALSE, TRUE, TRUE),
    Config(FALSE, TRUE, TRUE, TRUE, TRUE, FALSE),
    Config(FALSE, TRUE, FALSE, TRUE, FALSE, TRUE) }

HasSearchKey(c) ==
  c.SERP_API_KEY \/ (c.GOOGLE_API_KEY /\ c.GOOGLE_CSE_ID) \/ c.SERPER_API_KEY

Modes == { <<"Resume">>, <<"start", " ", "fresh">> }
\* mode.lower().startswith("resume")
IsResume(m) == StartsWith(Lower(m), <<"resume">>)

\* what the extraction model may answer
GptTexts ==
  { <<"Sure", " ", "[", "{", "m_acme", "}", ",", "{", "m_ACME", "}", "]">>,
    <<"[", "{", "m_nl", "}", ",", " ", "{", "m_nodesc", "}", "]">>,
    <<"[", "{", "m_google", "}", ",", "1", ",", "{", "m_blank", "}", "]">>,
    <<"{", "m_acme", "}">>,
    <<"[", "{", "m_acme", "}", "]", " ", "see", "]">>,
    <<"Sorry">> }

\* what grok_complete may return: None after its retries, or a content
GrokTexts ==
  { <<"{", "g_good", "}">>, <<"{", "g_same", "}">>, <<"ok", " ", "{", "g_long", "}">>,
    <<"{", "g_tail", "}">> }
GrokOuts(c) ==
  IF c.GROK_API_KEY THEN {None} \cup {Some(t) : t \in GrokTexts} ELSE {None}
\* the enrichment responses to the n items of a batch: the same kind of
\* response to every item
GrokRuns(c, n) == {[k \in 1..n |-> o] : o \in GrokOuts(c)}

(***************************************************************************)
(* State.                                                                  *)
(***************************************************************************)
VARIABLES
  outFile,      \* construction_tools.csv: [exists, rows]
  seenFile,     \* seen_tools.csv: [exists, text]
  offsetFile,   \* last_offset.txt: [exists, text]
  pc,           \* where the running handler is
  runs,         \* runs started so far
  cfg,          \* the credentials in the environment of the process
  mode,         \* the mode argument of the current run
  start_offset, \* run_scrape locals
  seen_names,
  bag,
  candidates,
  i,
  batch_num,
  total_saved,
  attempt,      \* safe_gpt_call locals
  wait,
  tries,        \* create() calls made by the current safe_gpt_call
  raw,
  requests,     \* page requests sent to the providers in the current run
  model_called, \* whether the current run has called a model
  ret           \* what the last completed run returned

vars ==
  << outFile, seenFile, offsetFile, pc, runs, cfg, mode, start_offset, seen_names,
     bag, candidates, i, batch_num, total_saved, attempt, wait, tries, raw, requests,
     model_called, ret >>

files == << outFile, seenFile, offsetFile >>
gptLocals == << attempt, wait, tries, raw >>
loopLocals == << candidates, i, batch_num, total_saved, seen_names >>

NoFile == [exists |-> FALSE, rows |-> <<>>]
EmptyFile == [exists |-> TRUE, rows |-> <<>>]

Init ==
  /\ outFile \in {NoFile, EmptyFile}
  /\ seenFile = Absent
  /\ offsetFile = Absent
  /\ pc = "idle"
  /\ runs = 0
  /\ cfg \in Configs
  /\ mode = <<"Resume">>
  /\ start_offset = 0
  /\ seen_names = {}
  /\ bag = <<>>
  /\ candidates = <<>>
  /\ i = 0
  /\ batch_num = 0
  /\ total_saved = 0
  /\ attempt = 0
  /\ wait = 0
  /\ tries = 0
  /\ raw = None
  /\ requests = <<>>
  /\ model_called = FALSE
  /\ ret = <<>>

\* no run is in progress: before the first run, after a completed run, after
\* a run that was cut short
Idle == {"idle", "done", "aborted"}

(***************************************************************************)
(* ensure_output_exists                                                    *)
(***************************************************************************)
\* mutant of ensure_output_exists: the header written whatever the file holds
ensure_output_rewrite(f) == [exists |-> TRUE, rows |-> <<Header>>]

ensure_output_exists(f) ==
  IF ~f.exists \/ f.rows = <<>> THEN [exists |-> TRUE, rows |-> <<Header>>] ELSE f

EnsureOutput ==
  /\ pc \in Idle
  /\ outFile' = ensure_output_exists(outFile)
  /\ UNCHANGED << seenFile, offsetFile, pc, runs, cfg, mode, start_offset, bag,
                  requests, model_called, ret >>
  /\ UNCHANGED loopLocals
  /\ UNCHANGED gptLocals

(***************************************************************************)
(* run_scrape                                                              *)
(***************************************************************************)
\* lines 509-515
StartOffset(m, last_offset) == IF IsResume(m) THEN last_offset ELSE 0

StartRun ==
  /\ pc \in Idle
  /\ runs < MaxRuns
  /\ \E m \in Modes :
       /\ mode' = m
       /\ start_offset' = StartOffset(m, load_last_offset(offsetFile))
  /\ runs' = runs + 1
  /\ outFile' = ensure_output_exists(outFile)
  /\ seen_names' = load_seen(seenFile)
  /\ bag' = <<>>
  /\ candidates' = <<>>
  /\ i' = 0
  /\ batch_num' = 0
  /\ total_saved' = 0
  /\ attempt' = 0
  /\ wait' = 0
  /\ tries' = 0
  /\ raw' = None
  /\ requests' = <<>>
  /\ model_called' = FALSE
  /\ pc' = "google_cse"
  /\ UNCHANGED << seenFile, offsetFile, cfg, ret >>

\* aggregate_results lines 270-280: one engine after the other
FetchStep(engine, has_key, next_pc) ==
  /\ pc = engine
  /\ \E script \in (IF has_key THEN Scripts(engine) ELSE {NoHits}) :
       LET got == Fetch(engine, has_key, start_offset, script)
       IN /\ bag' = bag \o got.results
          /\ requests' = requests \o got.requests
  /\ pc' = next_pc
  /\ UNCHANGED << runs, cfg, mode, start_offset, model_called, ret >>
  /\ UNCHANGED files
  /\ UNCHANGED loopLocals
  /\ UNCHANGED gptLocals

FetchGoogleCse ==
  FetchStep("google_cse", cfg.GOOGLE_API_KEY /\ cfg.GOOGLE_CSE_ID, "serpapi")

FetchSerpapi == FetchStep("serpapi", cfg.SERP_API_KEY, "serper")

FetchSerper == FetchStep("serper", cfg.SERPER_API_KEY, "rank")

\* aggregate_results lines 282-291 and run_scrape lines 523-533
RankCandidates ==
  /\ pc = "rank"
  /\ candidates' = Ranked(Dedup(bag, {}))
  /\ bag' = <<>>
  /\ i' = 0
  /\ batch_num' = 0
  /\ total_saved' = 0
  /\ pc' = "loop"
  /\ UNCHANGED << runs, cfg, mode, start_offset, seen_names, requests, model_called, ret >>
  /\ UNCHANGED files
  /\ UNCHANGED gptLocals

\* lines 535-542 and safe_gpt_call lines 311-314: the next batch is sent
BatchStart ==
  /\ pc = "loop"
  /\ i < Len(candidates)
  /\ batch_num' = batch_num + 1
  /\ attempt' = 0
  /\ wait' = 0
  /\ tries' = 0
  /\ raw' = None
  /\ pc' = IF cfg.OPENAI_API_KEY THEN "gpt" ELSE "process"
  /\ UNCHANGED << runs, cfg, mode, start_offset, bag, candidates, i, total_saved,
                  seen_names, requests, model_called, ret >>
  /\ UNCHANGED files

\* safe_gpt_call lines 315-322: an attempt that succeeds
GptSucceed ==
  /\ pc = "gpt"
  /\ attempt < GptMaxRetries
  /\ \E t \in GptTexts : raw' = Some(t)
  /\ tries' = tries + 1
  /\ model_called' = TRUE
  /\ pc' = "process"
  /\ UNCHANGED << runs, cfg, mode, start_offset, bag, requests, ret, attempt, wait >>
  /\ UNCHANGED files
  /\ UNCHANGED loopLocals

\* mutant of Backoff: the same wait after every failure
BackoffFlat(n) == RATE_LIMIT_BACKOFF

\* safe_gpt_call line 325: the sleep after the n-th failure
Backoff(n) == RATE_LIMIT_BACKOFF * n

\* safe_gpt_call lines 323-328: an attempt that fails
GptFail ==
  /\ pc = "gpt"
  /\ attempt < GptMaxRetries
  /\ attempt' = attempt + 1
  /\ wait' = Backoff(attempt')
  /\ tries' = tries + 1
  /\ model_called' = TRUE
  /\ raw' = None
  /\ pc' = IF attempt' < GptMaxRetries THEN "gpt" ELSE "process"
  /\ UNCHANGED << runs, cfg, mode, start_offset, bag, requests, ret >>
  /\ UNCHANGED files
  /\ UNCHANGED loopLocals

\* lines 588-652 for one item: the enrichment response out, then the safety pass
EnrichOne(en, out) == FinalSafety(IF NeedsGrok(en) THEN Enrich(en, out) ELSE en)

EnrichAll(extracted, batch, g) ==
  [k \in 1..Len(extracted) |-> EnrichOne(InitialEnriched(extracted[k], batch), g[k])]

\* lines 543-652: the records of a batch, given the extraction response and
\* one enrichment response per extracted item
EnrichedItems(response, batch, seen, g) ==
  EnrichAll(ExtractItems(parse_gpt_json(response), seen), batch, g)

NumExtracted(response, seen) == Len(ExtractItems(parse_gpt_json(response), seen))

\* lines 543-685: the rest of the loop body
ProcessBatch ==
  /\ pc = "process"
  /\ \E n \in {NumExtracted(raw, seen_names)} :
       \E g \in GrokRuns(cfg, n) :
         \E st \in {WriteRows(EnrichedItems(raw, BatchAt(candidates, i), seen_names, g),
                              [rows |-> outFile.rows, seen |-> seen_names,
                               saved |-> total_saved])} :
            /\ outFile' = [outFile EXCEPT !.rows = st.rows]
            /\ seen_names' = st.seen
            /\ total_saved' = st.saved
            /\ model_called' = (model_called \/ (n > 0 /\ cfg.GROK_API_KEY))
  /\ i' = i + BATCH_SIZE
  /\ pc' = "loop"
  /\ UNCHANGED << seenFile, offsetFile, runs, cfg, mode, start_offset, bag, candidates,
                  batch_num, requests, ret >>
  /\ UNCHANGED gptLocals

\* mutant of NewOffset: the offset advanced by one page only
NewOffsetOnePage(start) == start + RESULTS_PER_PAGE

\* lines 687-693
NewOffset(start) == start + (PAGES_PER_RUN * RESULTS_PER_PAGE)
ReturnValue(saved, new_offset) == <<saved, new_offset, <<>>>>

Finish ==
  /\ pc = "loop"
  /\ i >= Len(candidates)
  /\ offsetFile' = save_last_offset(NewOffset(start_offset))
  /\ seenFile' = save_seen(seen_names)
  /\ ret' = ReturnValue(total_saved, NewOffset(start_offset))
  /\ pc' = "done"
  /\ UNCHANGED << outFile, runs, cfg, mode, start_offset, bag, requests, model_called >>
  /\ UNCHANGED loopLocals
  /\ UNCHANGED gptLocals

\* the process dies inside the batch loop of run_scrape (lines 535-685):
\* nothing after the loop runs, the files stay as they are
Abort ==
  /\ pc \in {"loop", "gpt", "process"}
  /\ pc' = "aborted"
  /\ UNCHANGED << runs, cfg, mode, start_offset, bag, requests, model_called, ret >>
  /\ UNCHANGED files
  /\ UNCHANGED loopLocals
  /\ UNCHANGED gptLocals

(***************************************************************************)
(* The run handler of app.py.  run_serpapi_pages, clean_json_from_gpt and  *)
(* classify_source are called by the handler and are not defined in        *)
(* mscraper.py; they follow the component design of the specification.     *)
(***************************************************************************)
\* st.radio("Mode", ["Resume", "Start fresh"])
AppModes == { <<"Resume">>, <<"Start", " ", "fresh">> }

\* app.py line 26
AppStartOffset(m, last_offset) == IF m = <<"Resume">> THEN last_offset ELSE 0

\* the search aggregator over the one provider of the handler
run_serpapi_pages(has_key, start, script) == Fetch("serpapi", has_key, start, script)

\* app.py lines 48-55
AppCandidate(item) ==
  [title |-> item.title, snippet |-> item.snippet, link |-> item.link,
   displayed_link |-> item.displayed_link]
AppCandidates(unique) == [k \in 1..Len(unique) |-> AppCandidate(unique[k])]

\* app.py line 60: the title up to the first dash and the first pipe, trimmed
NaiveName(title) == Strip(SplitOn(SplitOn(title, "emdash")[1], "|")[1])

\* app.py lines 61 and 127: membership in seen, ignoring case
SeenLower(seen) == {Lower(x) : x \in seen}
NaivelySeen(name, seen) == name # <<>> /\ Lower(name) \in SeenLower(seen)

\* app.py lines 58-63
NaiveFilter(cands, seen) == SelectSeq(cands, LAMBDA c : ~NaivelySeen(NaiveName(c.title), seen))

\* the JSON block of a response, "" when there is none
clean_json_from_gpt(response) == JsonSpan(response.text)

\* the source classifier: a known provenance domain in the given source, then
\* a provenance keyword in the description and name, then the generic label;
\* never the tool's own website
KnownProvenance ==
  { [domain |-> <<"g2", ".", "com">>, keyword |-> <<"g2">>, label |-> <<"G2">>],
    [domain |-> <<"producthunt", ".", "com">>, keyword |-> <<"producthunt">>,
     label |-> <<"Product", " ", "Hunt">>] }
GenericLabel == <<"Google", " ", "Search">>
LabelOf(matches) ==
  IF matches = {} THEN GenericLabel ELSE (CHOOSE k \in matches : TRUE).label
DomainMatches(raw_src, web_d) ==
  {k \in KnownProvenance : IsSubstr(k.domain, Lower(raw_src)) /\ k.domain # web_d}
KeywordMatches(text, web_d) ==
  {k \in KnownProvenance : IsSubstr(k.keyword, Lower(text)) /\ k.domain # web_d}
FirstLabel(by_domain, by_keyword) ==
  IF by_domain # {} THEN LabelOf(by_domain) ELSE LabelOf(by_keyword)
classify_source(raw_src, desc, tn, website_url) ==
  FirstLabel(DomainMatches(raw_src, domain_from_url(website_url)),
             KeywordMatches(desc \o <<" ">> \o tn, domain_from_url(website_url)))

\* app.py lines 109-114
AppReviews(reviews_raw, desc) ==
  IF IsDigits(reviews_raw) THEN reviews_raw ELSE extract_review_count(desc)

\* app.py lines 117-118
AppTags(tags) == IF tags = <<>> THEN <<"AI", ",", " ", "construction">> ELSE tags

\* datetime.utcnow().isoformat()
Timestamp == <<"utcnow">>

\* app.py line 130: the row written for a record
AppRowOf(tn, desc, web, final_src, tags, reviews, launch) ==
  <<tn, desc, web, final_src, tags, reviews, launch, Timestamp>>

\* app.py lines 123-133 against the state st = [rows, seen, saved]
AppWriteRow(tn, desc, web, final_src, tags, reviews, launch, st) ==
  IF tn = <<>> \/ desc = <<>> \/ web = <<>> \/ final_src = <<>> THEN st
  ELSE IF Lower(tn) \in SeenLower(st.seen) THEN st
  ELSE [rows |-> Append(st.rows, AppRowOf(tn, desc, web, final_src, tags, reviews, launch)),
        seen |-> st.seen \cup {tn},
        saved |-> st.saved + 1]

\* app.py lines 100-121 for the fields of one object
AppWriteFields(tn, desc, web, raw_src, tags, reviews_raw, launch, st) ==
  AppWriteRow(tn, desc, web, classify_source(raw_src, desc, tn, web), AppTags(tags),
              AppReviews(reviews_raw, desc), launch, st)

AppWriteObj(obj, st) ==
  AppWriteFields(safe_get_str(obj.tool_name), safe_get_str(obj.description),
                 safe_get_str(obj.website), safe_get_str(obj.source),
                 safe_get_str(obj.tags), safe_get_str(obj.reviews),
                 safe_get_str(obj.launch_date), st)

\* app.py lines 97-133
RECURSIVE AppWriteRows(_, _)
AppWriteRows(parsed, st) ==
  IF parsed = <<>> THEN st
  ELSE IF parsed[1] = NonDict THEN AppWriteRows(Tail(parsed), st)
  ELSE AppWriteRows(Tail(parsed), AppWriteObj(Members(parsed[1]), st))

\* app.py lines 84-91: json.loads of the block, [] unless it is a list
AppListOf(v) == IF v.ok /\ v.kind = "list" THEN v.elems ELSE <<>>
AppParsed(json_text) == IF json_text = <<>> THEN <<>> ELSE AppListOf(json_loads(json_text))

\* app.py lines 75-133: one batch, given what safe_gpt_call returned
AppBatchResult(out, st) ==
  IF ~out.some \/ out.text = <<>> THEN st
  ELSE AppWriteRows(AppParsed(clean_json_from_gpt(out)), st)

\* what safe_gpt_call may return to the handler
GptOutcomes(c) == IF c.OPENAI_API_KEY THEN {None} \cup {Some(t) : t \in GptTexts} ELSE {None}

\* app.py lines 24-69
AppStart ==
  /\ pc \in Idle
  /\ runs < MaxRuns
  /\ runs' = runs + 1
  /\ outFile' = ensure_output_exists(outFile)
  /\ \E m \in AppModes :
       /\ mode' = m
       /\ start_offset' = AppStartOffset(m, load_last_offset(offsetFile))
  /\ seen_names' = load_seen(seenFile)
  /\ \E script \in (IF cfg.SERP_API_KEY THEN Scripts("serpapi") ELSE {NoHits}) :
       \E got \in {run_serpapi_pages(cfg.SERP_API_KEY, start_offset', script)} :
          /\ requests' = got.requests
          /\ candidates' = NaiveFilter(AppCandidates(Dedup(got.results, {})), seen_names')
  /\ bag' = <<>>
  /\ i' = 0
  /\ batch_num' = 0
  /\ total_saved' = 0
  /\ model_called' = FALSE
  /\ pc' = "app_loop"
  /\ UNCHANGED << seenFile, offsetFile, cfg, ret >>
  /\ UNCHANGED gptLocals

\* app.py lines 71-136: one pass of the batch loop
AppBatch ==
  /\ pc = "app_loop"
  /\ i < Len(candidates)
  /\ batch_num' = batch_num + 1
  /\ \E out \in GptOutcomes(cfg) :
       \E st \in {AppBatchResult(out, [rows |-> outFile.rows, seen |-> seen_names,
                                       saved |-> total_saved])} :
          /\ outFile' = [outFile EXCEPT !.rows = st.rows]
          /\ seen_names' = st.seen
          /\ total_saved' = st.saved
  /\ model_called' = (model_called \/ cfg.OPENAI_API_KEY)
  /\ i' = i + BATCH_SIZE
  /\ UNCHANGED << seenFile, offsetFile, pc, runs, cfg, mode, start_offset, bag,
                  candidates, requests, ret >>
  /\ UNCHANGED gptLocals

\* app.py lines 138-142
AppFinish ==
  /\ pc = "app_loop"
  /\ i >= Len(candidates)
  /\ offsetFile' = save_last_offset(NewOffset(start_offset))
  /\ seenFile' = save_seen(seen_names)
  /\ pc' = "done"
  /\ UNCHANGED << outFile, runs, cfg, mode, start_offset, bag, requests, model_called, ret >>
  /\ UNCHANGED loopLocals
  /\ UNCHANGED gptLocals

Next ==
  \/ EnsureOutput
  \/ StartRun
  \/ FetchGoogleCse
  \/ FetchSerpapi
  \/ FetchSerper
  \/ RankCandidates
  \/ BatchStart
  \/ GptSucceed
  \/ GptFail
  \/ ProcessBatch
  \/ Finish

Spec == Init /\ [][Next]_vars

\* run_scrape with runs that may be cut short
NextCrash == Next \/ Abort

SpecCrash == Init /\ [][NextCrash]_vars

\* the run handler of app.py
NextApp ==
  \/ EnsureOutput
  \/ AppStart
  \/ AppBatch
  \/ AppFinish

SpecApp == Init /\ [][NextApp]_vars

(***************************************************************************)
(* The dedupe of aggregate_results on its own, over every short list of    *)
(* fetched results: results that repeat a link and title, results without  *)
(* a link or a title, and links and titles that hold the "||" of the key.  *)
(***************************************************************************)
FetchedItems ==
  { [link |-> <<"a">>, title |-> <<"t">>, snippet |-> <<"one">>],
    [link |-> <<"a">>, title |-> <<"t">>, snippet |-> <<"two">>],
    [link |-> <<"a", "||">>, title |-> <<"t">>, snippet |-> <<>>],
    [link |-> <<"a">>, title |-> <<"||", "t">>, snippet |-> <<>>],
    [link |-> <<>>, title |-> <<"t">>, snippet |-> <<>>],
    [title |-> <<"t">>, snippet |-> <<"no link">>],
    [link |-> <<"a">>, snippet |-> <<"no title">>] }

FetchedBags == UNION {[1..n -> FetchedItems] : n \in 0..MaxBag}

InitDedup ==
  /\ bag \in FetchedBags
  /\ pc = "fetched"
  /\ outFile = NoFile
  /\ seenFile = Absent
  /\ offsetFile = Absent
  /\ runs = 0
  /\ cfg = NoSearchKeys
  /\ mode = <<"Resume">>
  /\ start_offset = 0
  /\ seen_names = {}
  /\ candidates = <<>>
  /\ i = 0
  /\ batch_num = 0
  /\ total_saved = 0
  /\ attempt = 0
  /\ wait = 0
  /\ tries = 0
  /\ raw = None
  /\ requests = <<>>
  /\ model_called = FALSE
  /\ ret = <<>>

\* aggregate_results lines 282-291 (app.py lines 36-45 are the same loop)
DedupResults ==
  /\ pc = "fetched"
  /\ candidates' = Dedup(bag, {})
  /\ pc' = "deduped"
  /\ UNCHANGED << runs, cfg, mode, start_offset, bag, i, batch_num, total_saved,
                  seen_names, requests, model_called, ret >>
  /\ UNCHANGED files
  /\ UNCHANGED gptLocals

SpecDedup == InitDedup /\ [][DedupResults]_vars

(***************************************************************************)
(* extract_review_count on its own, over texts of the shape                *)
(* <before> <number> <white space> <word> <after>: numbers written with    *)
(* and without grouping separators, of one to seven digits; review words,  *)
(* user words and a word that is neither.                                  *)
(***************************************************************************)
CountNumbers ==
  { <<"7">>, <<"1", "2">>, <<"2", "0", "4">>, <<"1", "2", "0", "4">>,
    <<"1", ",", "2", "0", "4">>, <<"1", "2", "3", "4", "5">>,
    <<"1", "2", ",", "3", "4", "5">>, <<"1", ",", "0", "0", "0", ",", "2", "0", "4">> }
CountWords == {"reviews", "Ratings", "vote", "users", "Clients", "tools"}
CountBefore == { <<>>, <<"as", " ", "reviewed", " ", "by", " ">>, <<"5", " ", "users", ";", " ">> }
CountAfter == { <<>>, <<" ", "...">>, <<" ", "and", " ", "3", " ", "reviews">> }
CountGaps == { <<" ">>, <<" ", "\n">> }
CountTexts ==
  { b \o n \o g \o <<w>> \o a :
      b \in CountBefore, n \in CountNumbers, g \in CountGaps, w \in CountWords,
      a \in CountAfter } \cup {<<>>}

InitCount ==
  /\ raw \in {Some(t) : t \in CountTexts}
  /\ pc = "text"
  /\ outFile = NoFile
  /\ seenFile = Absent
  /\ offsetFile = Absent
  /\ runs = 0
  /\ cfg = NoSearchKeys
  /\ mode = <<"Resume">>
  /\ start_offset = 0
  /\ seen_names = {}
  /\ bag = <<>>
  /\ candidates = <<>>
  /\ i = 0
  /\ batch_num = 0
  /\ total_saved = 0
  /\ attempt = 0
  /\ wait = 0
  /\ tries = 0
  /\ requests = <<>>
  /\ model_called = FALSE
  /\ ret = <<>>

\* extract_review_count(text), its result returned
CountReviews ==
  /\ pc = "text"
  /\ ret' = <<extract_review_count(raw.text)>>
  /\ pc' = "counted"
  /\ UNCHANGED << runs, cfg, mode, start_offset, bag, requests, model_called >>
  /\ UNCHANGED files
  /\ UNCHANGED loopLocals
  /\ UNCHANGED gptLocals

SpecCount == InitCount /\ [][CountReviews]_vars

(***************************************************************************)
(* Properties.  Row 1 of the output file is the header; the records are    *)
(* the rows after it.                                                      *)
(***************************************************************************)
Records == 2..Len(outFile.rows)
\* the rows a step appends
Appended == (Len(outFile.rows) + 1)..Len(outFile'.rows)
PageSpan == PAGES_PER_RUN * RESULTS_PER_PAGE

\* C1: after completed runs of run_scrape, starting from an empty store and
\* an empty seen file, no two rows of the output file have tool names that
\* are equal ignoring case.
C1_UniqueToolNames ==
  pc = "done" =>
    \A a \in Records : \A b \in Records :
       a # b => Lower(outFile.rows[a][1]) # Lower(outFile.rows[b][1])

\* C2: in every row run_scrape wrote, the domain of the source differs from
\* the domain of the website.
C2_SourceOffWebsite ==
  \A k \in Records :
     domain_from_url(outFile.rows[k][4]) # domain_from_url(outFile.rows[k][3])

\* an element of a parsed response whose tool_name, description and website
\* are all non-blank after coercion
Complete(p) ==
  /\ p # NonDict
  /\ Strip(safe_get_str(Members(p).tool_name)) # <<>>
  /\ Strip(safe_get_str(Members(p).description)) # <<>>
  /\ Strip(safe_get_str(Members(p).website)) # <<>>
CompleteCount(parsed) == Cardinality({k \in 1..Len(parsed) : Complete(parsed[k])})

\* C3: no row run_scrape appends has an empty tool_name, description,
\* website or source, and a batch appends at most as many rows as its
\* response has objects with none of tool_name, description, website empty.
C3_RequiredFields ==
  [][ /\ \A k \in Appended : \A f \in 1..4 : outFile'.rows[k][f] # <<>>
      /\ pc = "process" =>
           Len(outFile'.rows) - Len(outFile.rows) <= CompleteCount(parse_gpt_json(raw)) ]_vars

\* a batch whose response holds an object with a blank tool_name next to a
\* complete one has been processed, and only the complete one was saved
C3_Witness ==
  /\ pc = "loop"
  /\ raw = Some(<<"[", "{", "m_google", "}", ",", "1", ",", "{", "m_blank", "}", "]">>)
  /\ total_saved = 1
  /\ \E k \in Records : outFile.rows[k][1] = <<"Togal">>

\* C4: the reviews field of every row run_scrape wrote is a non-empty
\* string of decimal digits.
C4_ReviewsDigits ==
  \A k \in Records : AllDigits(outFile.rows[k][6], 1, Len(outFile.rows[k][6]))

\* a row whose count was recovered from the description ("by 1,204 users")
\* because the enrichment gave a value that is not a number, next to the
\* header
C4_Witness ==
  \E k \in Records : outFile.rows[k][6] = <<"1", "2", "0", "4">>

\* C5: the step that completes a run returns and persists
\* start_offset + PAGES_PER_RUN * RESULTS_PER_PAGE, where start_offset is the
\* offset persisted before the run in resume mode and 0 otherwise.
C5_OffsetAdvance ==
  [][ (pc = "loop" /\ pc' = "done") =>
        /\ mode = <<"Resume">> =>
             /\ ret'[2] = load_last_offset(offsetFile) + PageSpan
             /\ load_last_offset(offsetFile') = load_last_offset(offsetFile) + PageSpan
        /\ mode # <<"Resume">> =>
             /\ ret'[2] = PageSpan
             /\ load_last_offset(offsetFile') = PageSpan ]_vars

\* a second resumed run has completed without saving a row: the offset went
\* from 100 to 200
C5_Witness ==
  /\ pc = "done" /\ runs = 2 /\ mode = <<"Resume">>
  /\ total_saved = 0
  /\ ret[2] = 2 * PageSpan
  /\ load_last_offset(offsetFile) = 2 * PageSpan

\* C6 as stated: without a search credential a completed run has made no
\* provider request and no model call, has appended no row and has returned
\* the pair (0, start_offset + PAGES_PER_RUN * RESULTS_PER_PAGE).
C6_ReturnsPair ==
  (pc = "done" /\ ~HasSearchKey(cfg)) =>
     /\ requests = <<>>
     /\ ~model_called
     /\ Records = {}
     /\ ret = <<0, start_offset + PageSpan>>

\* C6 amended: the same, but the value returned is the triple
\* (0, start_offset + PAGES_PER_RUN * RESULTS_PER_PAGE, []).
C6_ReturnsTriple ==
  (pc = "done" /\ ~HasSearchKey(cfg)) =>
     /\ requests = <<>>
     /\ ~model_called
     /\ Records = {}
     /\ ret = <<0, start_offset + PageSpan, <<>> >>

\* a run without search credentials has completed after an earlier one
C6_Witness ==
  /\ pc = "done" /\ ~HasSearchKey(cfg)
  /\ runs = 2
  /\ outFile.rows = <<Header>>
  /\ Len(ret) = 3

\* C7: the output file begins with the header row of 7 columns and every
\* row in it, whichever handler wrote it, has exactly 7 fields.
C7_SevenFields ==
  outFile.rows # <<>> =>
     /\ outFile.rows[1] = Header
     /\ \A k \in 1..Len(outFile.rows) : Len(outFile.rows[k]) = 7

\* C8: the output file is append-only: the rows before a step are a prefix
\* of the rows after it, also when a run is cut short in its batch loop.
C8_AppendOnly == [][IsPrefix(outFile.rows, outFile'.rows)]_vars

\* a run was cut short after it had appended rows behind those of an
\* earlier run
C8_Witness ==
  /\ pc = "aborted" /\ runs = 2
  /\ total_saved > 0
  /\ Len(outFile.rows) > 1 + total_saved

\* C9: the extraction call of a batch is attempted at most GptMaxRetries
\* times and not again after a success; the wait after the n-th failure is
\* n * RATE_LIMIT_BACKOFF; after GptMaxRetries failures the call returns
\* None; a batch whose call returned None appends no row and the loop goes
\* on with the next batch; a run completes only after every batch, with
\* the offset and the seen set persisted.
C9_RetryThenSkip ==
  [][ /\ tries' <= GptMaxRetries
      /\ (pc = "gpt" /\ raw'.some) => (pc' = "process" /\ tries' = tries + 1)
      /\ (pc = "gpt" /\ ~raw'.some) =>
            /\ attempt' = attempt + 1
            /\ tries' = attempt'
            /\ wait' = attempt' * RATE_LIMIT_BACKOFF
            /\ pc' = (IF attempt' = GptMaxRetries THEN "process" ELSE "gpt")
      /\ pc # "gpt" => (tries' = tries \/ tries' = 0)
      /\ (pc = "process" /\ ~raw.some) =>
            /\ outFile' = outFile
            /\ pc' = "loop"
            /\ i' = i + BATCH_SIZE
      /\ (pc = "loop" /\ pc' = "done") =>
            /\ batch_num * BATCH_SIZE >= Len(candidates)
            /\ seenFile' = save_seen(seen_names)
            /\ offsetFile'.exists ]_vars

\* a run of two batches has completed although the call for its last batch
\* failed GptMaxRetries times
C9_Witness ==
  /\ pc = "done"
  /\ batch_num = 2
  /\ attempt = GptMaxRetries /\ tries = GptMaxRetries
  /\ wait = GptMaxRetries * RATE_LIMIT_BACKOFF
  /\ ~raw.some
  /\ seenFile.exists /\ offsetFile.exists

\* the value json.loads finds in the JSON span of a response text
SpanValue(t) == ParseValue(JsonSpan(t), SkipWs(JsonSpan(t), 1))
\* no JSON span, or a span that does not parse
Unparsable(t) ==
  \/ JsonSpan(t) = <<>>
  \/ ~SpanValue(t).ok
  \/ SkipWs(JsonSpan(t), SpanValue(t).next) <= Len(JsonSpan(t))
KindOf(t) == IF Unparsable(t) THEN "none" ELSE SpanValue(t).kind

\* C10 as stated: a response without a JSON span, with a span that does not
\* parse, or with one that parses to something other than an array gives no
\* record and no row.
C10_NonArrayNoRows ==
  [][ (pc = "process" /\ raw.some /\ KindOf(raw.text) # "list") =>
        (outFile' = outFile /\ total_saved' = total_saved) ]_vars

\* C10 amended: a response without a JSON span, with a span that does not
\* parse, or with one that parses to neither an array nor an object gives
\* no record and no row; a single object is taken as an array of one
\* element and gives at most one row.
C10_NoJsonNoRows ==
  [][ /\ (pc = "process" /\ raw.some /\ KindOf(raw.text) \notin {"list", "dict"}) =>
           (outFile' = outFile /\ total_saved' = total_saved)
      /\ (pc = "process" /\ raw.some /\ KindOf(raw.text) = "dict") =>
           Len(outFile'.rows) <= Len(outFile.rows) + 1 ]_vars

\* a batch whose response has a span that does not parse has been processed
\* while its candidates were still unknown, and nothing was saved
C10_Witness ==
  /\ pc = "loop"
  /\ raw = Some(<<"[", "{", "m_acme", "}", "]", " ", "see", "]">>)
  /\ seen_names = {}
  /\ Records = {}

\* the positions of a response where a well-formed JSON array starts
ArrayStarts(t) ==
  {k \in 1..Len(t) : t[k] = "[" /\ ParseValue(t, k).ok}
\* the elements of the first well-formed array of a response
FirstArray(t) == ParseValue(t, SetMin(ArrayStarts(t))).elems

\* C11: whenever a response holds a well-formed JSON array, whatever text
\* surrounds it (closing brackets after it included), parse_gpt_json returns
\* the elements of the first such array.
C11_FirstArray ==
  (pc = "process" /\ raw.some /\ ArrayStarts(raw.text) # {}) =>
     parse_gpt_json(raw) = FirstArray(raw.text)

\* the results of bag whose key K is not the key of an earlier result, in the
\* order of bag
FirstIdx(b, K(_)) == {k \in 1..Len(b) : \A j \in 1..(k - 1) : K(b[j]) # K(b[k])}
NthOf(idx, n) == CHOOSE x \in idx : Cardinality({y \in idx : y <= x}) = n
FirstsAt(b, idx) == [n \in 1..Cardinality(idx) |-> b[NthOf(idx, n)]]
FirstsFrom(b, K(_)) == FirstsAt(b, FirstIdx(b, K))
\* the (link, title) pair of a result, a missing field being the empty string
PairOf(r) == << GetOrEmpty(r, "link"), GetOrEmpty(r, "title") >>
\* the key of the dedupe written out: link, then "||", then title
KeyOf(r) == GetOrEmpty(r, "link") \o <<"||">> \o GetOrEmpty(r, "title")

\* C12 as stated: the dedupe returns, in fetch order, exactly the first
\* occurrence of every (link, title) pair of the fetched results.
C12_FirstOfEachPair ==
  pc = "deduped" => candidates = FirstsFrom(bag, PairOf)

\* C12 amended: the dedupe returns, in fetch order, exactly the first
\* occurrence of every key link + "||" + title of the fetched results, a
\* missing link or title being the empty string; two results whose links and
\* titles differ but concatenate to the same key count as duplicates.
C12_FirstOfEachKey ==
  pc = "deduped" => candidates = FirstsFrom(bag, KeyOf)

\* a list with a repeated (link, title), a result without a link and one with
\* an empty link has been deduplicated down to two results
C12_Witness ==
  /\ pc = "deduped"
  /\ Len(bag) = MaxBag
  /\ Len(candidates) = 2
  /\ \E a \in 1..Len(bag) : \E b \in 1..Len(bag) :
        a < b /\ bag[a] # bag[b] /\ PairOf(bag[a]) = PairOf(bag[b]) /\ bag[a].snippet = <<"one">>
  /\ \E a \in 1..Len(bag) : "link" \notin DOMAIN bag[a]

\* the 0-based position of the first result a page request asks for: the
\* "start" of SerpAPI is 0-based, the "start" of Google CSE is 1-based, and
\* Serper is asked for a 1-based page number of RESULTS_PER_PAGE results
PositionOf(q) ==
  CASE q.engine = "serpapi" -> q.value
    [] q.engine = "google_cse" -> q.value - 1
    [] OTHER -> (q.value - 1) * RESULTS_PER_PAGE
RequestsOf(engine) == SelectSeq(requests, LAMBDA q : q.engine = engine)
Configured(engine) ==
  CASE engine = "serpapi" -> cfg.SERP_API_KEY
    [] engine = "google_cse" -> cfg.GOOGLE_API_KEY /\ cfg.GOOGLE_CSE_ID
    [] OTHER -> cfg.SERPER_API_KEY

\* C13: once the providers of a run have been queried, every configured
\* provider has sent exactly PAGES_PER_RUN page requests, failed pages
\* included, the k-th of them (k from 0) for the results at position
\* start_offset + k * RESULTS_PER_PAGE, and a provider without credentials
\* has sent none.
C13_PagesFromOffset ==
  pc = "rank" =>
    \A engine \in {"google_cse", "serpapi", "serper"} :
       IF Configured(engine)
       THEN /\ Len(RequestsOf(engine)) = PAGES_PER_RUN
            /\ \A k \in 0..(PAGES_PER_RUN - 1) :
                  PositionOf(RequestsOf(engine)[k + 1]) = start_offset + k * RESULTS_PER_PAGE
       ELSE RequestsOf(engine) = <<>>

\* C14: whenever a batch is sent to the extraction model, none of its
\* candidates has a naive name (the title up to the first dash or pipe,
\* trimmed) that is, ignoring case, in the seen set loaded at the start of
\* the run.
C14_SeenNotSent ==
  pc = "gpt" =>
    \A k \in 1..Len(BatchAt(candidates, i)) :
       ~NaivelySeen(NaiveName(BatchAt(candidates, i)[k].title), load_seen(seenFile))

\* the number written right before position p of a text: e is its last
\* token, white space lies between e and p, and the number reaches back over
\* every digit and grouping comma
LastBefore(t, p) ==
  IF \A j \in 1..(p - 1) : t[j] \in WS THEN 0
  ELSE SetMax({j \in 1..(p - 1) : t[j] \notin WS})
NumberBefore(t, p) ==
  p >= 3 /\ LastBefore(t, p) \in 1..(p - 2) /\ t[LastBefore(t, p)] \in DigitToks
WrittenStart(t, e) ==
  SetMin({a \in 1..e : \A j \in a..e : t[j] \in DigitToks \cup {","}})
WrittenNumber(t, e) ==
  SelectSeq(SubSeq(t, WrittenStart(t, e), e), LAMBDA c : c \in DigitToks)
\* the keywords of a text that have a number right before them
CountedAt(t, words) ==
  {p \in 1..Len(t) : LowerTok(t[p]) \in words /\ NumberBefore(t, p)}
FirstCounted(t, words) == WrittenNumber(t, LastBefore(t, SetMin(CountedAt(t, words))))
WholeCount(t) ==
  IF CountedAt(t, ReviewWords) # {} THEN FirstCounted(t, ReviewWords)
  ELSE IF CountedAt(t, UserWords) # {} THEN FirstCounted(t, UserWords)
  ELSE <<"0">>

\* C15: extract_review_count returns every digit of the number written
\* right before the first review, rating or vote keyword, or else before
\* the first users, customers or clients keyword, grouping separators
\* removed, and "0" when the text has no such number.
C15_WholeNumber ==
  pc = "counted" => ret = << WholeCount(raw.text) >>

\* the records whose tool name is written on one line
OneLineRecords == {k \in Records : \A j \in 1..Len(outFile.rows[k][1]) : outFile.rows[k][1][j] # "\n"}

\* C16: after a completed run, earlier runs having possibly been cut short
\* inside their batch loop with rows appended and nothing persisted, no two
\* rows of the output file have one-line tool names that are equal ignoring
\* case.
C16_UniqueAfterInterrupt ==
  pc = "done" =>
    \A a \in OneLineRecords : \A b \in OneLineRecords :
       a < b => Lower(outFile.rows[a][1]) # Lower(outFile.rows[b][1])

\* C17: in every row run_scrape wrote, the tags are a comma-separated list
\* of at most 5 entries, and "AI" and "construction" are among the entries,
\* ignoring case.
C17_BaseTags ==
  \A k \in Records :
     /\ Len(TagList(outFile.rows[k][5])) <= 5
     /\ <<"ai">> \in Range(LowerAll(TagList(outFile.rows[k][5])))
     /\ <<"construction">> \in Range(LowerAll(TagList(outFile.rows[k][5])))

====
